---- MODULE Spec2Model ----
(***************************************************************************)
(* Stock and price synchronisation of seller.py (Ozon, "marketplace A")    *)
(* and market.py (Yandex.Market, "marketplace B").                         *)
(*                                                                         *)
(* One run of one entry point is modelled as a sequential program: `pc`    *)
(* is the position in the entry point, the other variables are its locals. *)
(* The spreadsheet and the marketplace catalogs are the environment; they  *)
(* are fixed in Init and read by download_stock and get_product_list.      *)
(***************************************************************************)
EXTENDS Integers, Sequences, FiniteSets, TLC

\* ------------------------------------------------------------------ bounds
\* Longest spreadsheet of the exhaustively enumerated runs.
MaxFeedLen == 2
\* Offer codes "1".."MaxCode" may appear in an enumerated spreadsheet.
MaxCode == 2
\* Largest catalog of the exhaustively enumerated runs.
MaxCatalog == 2
\* A page size smaller than the requested limit, so that small catalogs
\* are served over several pages.
SmallPage == 1
\* SpecDivide: longest list and largest chunk size handed to divide.
MaxLen == 4
MaxN == 3

\* ------------------------------------------------------- program constants
\* seller.py get_product_list: "limit": 1000
PageLimitA == 1000
\* market.py get_product_list: "limit": 200
PageLimitB == 200
\* seller.py: divide(stocks, 100)
StockBatchA == 100
\* seller.py main: divide(prices, 900)
PriceBatchAMain == 900
\* seller.py upload_prices: divide(prices, 1000)
PriceBatchAUpload == 1000
\* market.py: divide(stocks, 2000)
StockBatchB == 2000
\* market.py upload_prices: divide(prices, 500)
PriceBatchB == 500
\* create_stocks: the stock reported for the text ">10"
ManyStock == 100

\* ------------------------------------------------------------------- texts
\* A text is a sequence of one-character strings.
Digits == {"0", "1", "2", "3", "4", "5", "6", "7", "8", "9"}

IsDigit(c) == c \in Digits

DigitVal(c) ==
    CASE c = "0" -> 0 [] c = "1" -> 1 [] c = "2" -> 2 [] c = "3" -> 3
      [] c = "4" -> 4 [] c = "5" -> 5 [] c = "6" -> 6 [] c = "7" -> 7
      [] c = "8" -> 8 [] c = "9" -> 9

RECURSIVE DigitsValue(_)
\* The number a non-empty text of digits denotes.
DigitsValue(ds) ==
    IF ds = <<>> THEN 0
    ELSE 10 * DigitsValue(SubSeq(ds, 1, Len(ds) - 1)) + DigitVal(ds[Len(ds)])

AllDigits(ds) == ds # <<>> /\ \A k \in 1..Len(ds) : IsDigit(ds[k])

\* Python's int(text) on the texts of the model's alphabet (no blanks, no
\* underscores): an optional sign and at least one digit, else ValueError.
ParseInt(text) ==
    IF text # <<>> /\ text[1] \in {"-", "+"}
    THEN IF AllDigits(Tail(text))
         THEN [ok |-> TRUE,
               val |-> IF text[1] = "-" THEN 0 - DigitsValue(Tail(text))
                       ELSE DigitsValue(Tail(text))]
         ELSE [ok |-> FALSE, val |-> 0]
    ELSE IF AllDigits(text)
         THEN [ok |-> TRUE, val |-> DigitsValue(text)]
         ELSE [ok |-> FALSE, val |-> 0]

Min(S) == CHOOSE x \in S : \A y \in S : x <= y

\* price.split(".")[0]: the text before the first ".".
BeforeFirstDot(price) ==
    LET dots == {k \in 1..Len(price) : price[k] = "."}
    IN  IF dots = {} THEN price ELSE SubSeq(price, 1, Min(dots) - 1)

\* re.sub("[^0-9]", "", price.split(".")[0])
price_conversion(price) == SelectSeq(BeforeFirstDot(price), IsDigit)

\* ------------------------------------------------------------- environment
TextMany == <<">", "1", "0">>
TextOne == <<"1">>

\* The (Количество, Цена) cells of the spreadsheet rows of the enumerated runs.
FeedRows ==
    { [count |-> TextMany,
       price |-> <<"5", "'", "9", "9", "0", ".", "0", "0", " ", "r", ".">>],
      [count |-> TextOne, price |-> <<"1", "9", "9", ".", "9", "9">>],
      [count |-> <<"1", "5">>, price |-> <<"5", "0">>],
      [count |-> <<"-", "3">>, price |-> <<".", "5", "0">>],
      [count |-> <<>>, price |-> <<"7", "0", ".", "0", "0">>] }

\* str(i): the offer code with number i.
OfferName(i) == ToString(i)

FeedRecords ==
    { [code |-> OfferName(i), count |-> r.count, price |-> r.price] :
        i \in 1..MaxCode, r \in FeedRows }

SmallFeeds == UNION { [1..n -> FeedRecords] : n \in 0..MaxFeedLen }

\* A long spreadsheet: n rows with the codes "1".."n", all of them in stock.
LongFeed(n) ==
    [i \in 1..n |->
        [code |-> OfferName(i), count |-> <<"7">>,
         price |-> <<"9", "9", ".", "0", "0">>]]

Entries ==
    {"seller_main", "seller_upload_prices", "seller_upload_stocks",
     "market_main", "market_upload_prices", "market_upload_stocks"}

Marketplace(e) ==
    IF e \in {"seller_main", "seller_upload_prices", "seller_upload_stocks"}
    THEN "seller" ELSE "market"

AllCampaigns == {"client", "fbs", "dbs"}

\* The campaigns an entry point enumerates, in order.
CampaignsOf(e) ==
    IF Marketplace(e) = "seller" THEN <<"client">>
    ELSE IF e = "market_main" THEN <<"fbs", "dbs">>
    ELSE <<"fbs">>

PageLimit(mp) == IF mp = "seller" THEN PageLimitA ELSE PageLimitB

\* The catalogs of the enumerated runs: the campaigns the entry point
\* reads hold up to MaxCatalog offers together, the others none.
SmallCatalogs(e) ==
    { c \in [AllCampaigns -> 0..MaxCatalog] :
        /\ c["client"] + c["fbs"] + c["dbs"] <= MaxCatalog
        /\ \A x \in AllCampaigns :
              (\A k \in 1..Len(CampaignsOf(e)) : CampaignsOf(e)[k] # x) => c[x] = 0 }

OneCatalog(e, n) ==
    [x \in AllCampaigns |-> IF x = CampaignsOf(e)[1] THEN n ELSE 0]

\* Runs whose reconciled list is one record longer than the batch limit of
\* the entry point: [sheet length, catalog size].
LongRuns(e) ==
    CASE e = "seller_main" -> {<<0, StockBatchA + 1>>}
      [] e = "seller_upload_stocks" -> {<<1, StockBatchA + 1>>}
      [] e = "seller_upload_prices" ->
            {<<PriceBatchAUpload + 1, PriceBatchAUpload + 1>>}
      [] e = "market_main" -> {<<0, StockBatchB + 1>>}
      [] e = "market_upload_stocks" -> {<<1, StockBatchB + 1>>}
      [] e = "market_upload_prices" -> {<<PriceBatchB + 1, PriceBatchB + 1>>}

\* ------------------------------------------------------------ control flow
\* The phase that follows phase ph in entry point e ("coroutine" is the
\* un-awaited call of the coroutine function upload_prices in market.main).
NextPhase(e, ph) ==
    CASE e = "seller_main" ->
            (CASE ph = "enum" -> "download" [] ph = "download" -> "stocks"
               [] ph = "stocks" -> "send_stocks" [] ph = "send_stocks" -> "prices"
               [] ph = "prices" -> "send_prices" [] OTHER -> "done")
      [] e = "market_main" ->
            (CASE ph = "download" -> "enum" [] ph = "enum" -> "stocks"
               [] ph = "stocks" -> "send_stocks" [] ph = "send_stocks" -> "coroutine"
               [] OTHER -> "done")
      [] e \in {"seller_upload_prices", "market_upload_prices"} ->
            (CASE ph = "enum" -> "prices" [] ph = "prices" -> "send_prices"
               [] OTHER -> "done")
      [] OTHER ->
            (CASE ph = "enum" -> "stocks" [] ph = "stocks" -> "send_stocks"
               [] OTHER -> "done")

\* A variant that starts reconciling before get_offer_ids is called.
FirstPhase_reconcile(e) ==
    IF e = "market_main" THEN "download" ELSE NextPhase(e, "enum")

FirstPhase(e) == IF e = "market_main" THEN "download" ELSE "enum"

\* The phase reached when a reconciliation of phase ph returns `batches`
\* to its for loop: a loop over no batch is left at once.
AfterReconcile(e, ph, bs) ==
    IF bs = <<>> THEN NextPhase(e, NextPhase(e, ph)) ELSE NextPhase(e, ph)

StockBatch(e) == IF Marketplace(e) = "seller" THEN StockBatchA ELSE StockBatchB

PriceBatch(e) ==
    CASE e = "seller_main" -> PriceBatchAMain
      [] e = "seller_upload_prices" -> PriceBatchAUpload
      [] OTHER -> PriceBatchB

\* ------------------------------------------------------------------- state
VARIABLES
    entry,          \* the entry point that runs
    sheet,          \* environment: the rows of ostatki.xls
    catalog,        \* environment: number of offers of each campaign's catalog
    pageSize,       \* environment: entries per page the catalog endpoint serves
    pc,             \* the phase the entry point is in
    ci,             \* index in CampaignsOf(entry) of the campaign being served
    error,          \* "none", or the exception that ended the run
    watch_remnants, \* the rows download_stock returned (or the argument)
    cursor,         \* get_offer_ids: last_id / page; 0 is the empty cursor
    total,          \* get_offer_ids (seller): some_prod.get("total")
    product_list,   \* get_offer_ids: the entries accumulated
    requests,       \* history: the cursor of each page request and its reply
    offer_ids,      \* the list get_offer_ids returned, as create_stocks left it
    i,              \* create_stocks / create_prices: rows already visited
    stocks,         \* create_stocks: stocks
    prices,         \* create_prices: prices
    batches,        \* list(divide(...)) of the for loop being run
    sent,           \* number of batches of `batches` already handed over
    not_empty,      \* upload_stocks: the records with a non-zero stock
    coroutines,     \* coroutine objects created and never awaited
    enumerated,     \* history: per campaign, the list get_offer_ids returned
    stockOut,       \* history: per campaign, the list create_stocks returned
    priceOut,       \* history: per campaign, the list create_prices returned
    handed,         \* history: the batches passed to update_stocks / update_price
    lst,            \* SpecDivide: the list
    n,              \* SpecDivide: the chunk size
    chunks          \* SpecDivide: the outcome of list(divide(lst, n))

env == <<entry, sheet, catalog, pageSize>>
enumVars == <<cursor, total, product_list, requests>>
divVars == <<lst, n, chunks>>
history == <<enumerated, stockOut, priceOut, handed>>
vars == <<entry, sheet, catalog, pageSize, pc, ci, error, watch_remnants, cursor,
          total, product_list, requests, offer_ids, i, stocks, prices, batches,
          sent, not_empty, coroutines, enumerated, stockOut, priceOut, handed,
          lst, n, chunks>>

campaign == CampaignsOf(entry)[ci]
mp == Marketplace(entry)

NotYet == [done |-> FALSE, list |-> <<>>]
Returned(l) == [done |-> TRUE, list |-> l]

\* The runs of the model: every entry point on every small spreadsheet and
\* catalog, and on one long spreadsheet and catalog.
Runs(e) ==
    { [sheet |-> f, catalog |-> c, pageSize |-> SmallPage] :
        f \in SmallFeeds, c \in SmallCatalogs(e) }
    \cup
    { [sheet |-> LongFeed(r[1]), catalog |-> OneCatalog(e, r[2]),
       pageSize |-> PageLimit(Marketplace(e))] : r \in LongRuns(e) }

Init ==
    /\ entry \in Entries
    /\ \E r \in Runs(entry) :
          /\ sheet = r.sheet
          /\ catalog = r.catalog
          /\ pageSize = r.pageSize
          \* upload_prices and upload_stocks receive the rows as an argument
          /\ watch_remnants =
                IF entry \in {"seller_main", "market_main"} THEN <<>> ELSE r.sheet
    /\ pc = FirstPhase(entry)
    /\ ci = 1
    /\ error = "none"
    /\ cursor = 0 /\ total = 0 /\ product_list = <<>> /\ requests = <<>>
    /\ offer_ids = <<>>
    /\ i = 0
    /\ stocks = <<>> /\ prices = <<>> /\ batches = <<>> /\ sent = 0
    /\ not_empty = <<>>
    /\ coroutines = 0
    /\ enumerated = [c \in AllCampaigns |-> NotYet]
    /\ stockOut = [c \in AllCampaigns |-> NotYet]
    /\ priceOut = [c \in AllCampaigns |-> NotYet]
    /\ handed = <<>>
    /\ lst = <<>> /\ n = 1 /\ chunks = [raised |-> FALSE, list |-> <<>>]

\* ------------------------------------------------------------- enumeration
\* One entry of a catalog page as the endpoint returns it.
CatalogEntry(m, k) ==
    IF m = "seller" THEN [offer_id |-> OfferName(k)]
    ELSE [offer |-> [shopSku |-> OfferName(k)]]

\* product.get("offer_id") / product.get("offer").get("shopSku")
EntryOfferId(m, product) ==
    IF m = "seller" THEN product.offer_id ELSE product.offer.shopSku

\* The responses the catalog endpoint of campaign c may give to a request
\* with cursor cur: the next pageSize entries, or a failure.  The last page
\* of Yandex.Market carries no nextPageToken; Ozon returns a last_id with
\* every page, empty or not.
Responses(m, size, cur) ==
    LET cnt == IF size - cur < pageSize THEN size - cur ELSE pageSize
        items == [k \in 1..cnt |-> CatalogEntry(m, cur + k)]
        last == cur + cnt >= size
        next == IF ~last THEN {cur + cnt}
                ELSE IF m = "seller" THEN {0, cur + cnt} ELSE {0}
    IN  { [kind |-> "ok", items |-> items, total |-> size, cursor |-> c] :
            c \in next }
        \cup
        { [kind |-> k, items |-> <<>>, total |-> 0, cursor |-> 0] :
            k \in {"transport", "status", "no_result"} }

\* A variant that takes a failed request for an empty page.
get_product_list_swallow(resp) ==
    [raised |-> FALSE, present |-> TRUE,
     result |-> [resp EXCEPT !.kind = "ok"]]

\* get_product_list: raise_for_status raises on a transport error or a
\* non-success status; response_object.get("result") is None when the
\* body has no "result".
get_product_list(resp) ==
    [raised |-> resp.kind \in {"transport", "status"},
     present |-> resp.kind = "ok",
     result |-> resp]

\* A variant that leaves the loop after the first page.
LoopEnds_first_page(m, tot, cur, len) == TRUE

\* The test that leaves the while loop of get_offer_ids:
\* seller.py `total == len(product_list)`, market.py `not page`.
LoopEnds(m, tot, cur, len) ==
    IF m = "seller" THEN tot = len ELSE cur = 0

ExtractOfferIds(m, products) ==
    [k \in 1..Len(products) |-> EntryOfferId(m, products[k])]

\* One pass of the while loop of get_offer_ids, up to its return.
GetProductList ==
    /\ pc = "enum" /\ error = "none"
    /\ \E resp \in Responses(mp, catalog[campaign], cursor) :
        LET got == get_product_list(resp) IN
        /\ requests' = Append(requests, [cursor |-> cursor, reply |-> resp.kind])
        /\ IF got.raised \/ ~got.present
           THEN \* the exception leaves get_offer_ids: nothing is returned
                /\ error' = IF got.raised THEN "RequestException" ELSE "AttributeError"
                /\ UNCHANGED <<pc, cursor, total, product_list, offer_ids,
                               enumerated, i, stocks>>
           ELSE LET pl == product_list \o got.result.items IN
                /\ product_list' = pl
                /\ total' = got.result.total
                /\ cursor' = got.result.cursor
                /\ error' = "none"
                /\ IF LoopEnds(mp, got.result.total, got.result.cursor, Len(pl))
                   THEN /\ offer_ids' = ExtractOfferIds(mp, pl)
                        /\ enumerated' =
                             [enumerated EXCEPT
                                ![campaign] = Returned(ExtractOfferIds(mp, pl))]
                        /\ pc' = NextPhase(entry, "enum")
                        /\ i' = 0
                        \* create_stocks, when it is called next, starts
                        \* with `stocks = []`
                        /\ stocks' = IF NextPhase(entry, "enum") = "stocks"
                                     THEN <<>> ELSE stocks
                   ELSE UNCHANGED <<pc, offer_ids, enumerated, i, stocks>>
    /\ UNCHANGED <<env, ci, watch_remnants, prices, batches, sent,
                   not_empty, coroutines, stockOut, priceOut, handed, divVars>>

\* download_stock(): the rows of the spreadsheet, or the exception of a
\* failed download.
DownloadStock ==
    /\ pc = "download" /\ error = "none"
    /\ \E ok \in BOOLEAN :
        IF ok
        THEN /\ watch_remnants' = sheet
             /\ pc' = NextPhase(entry, "download")
             /\ error' = "none"
        ELSE /\ error' = "RequestException"
             /\ UNCHANGED <<pc, watch_remnants>>
    /\ i' = 0
    /\ UNCHANGED <<env, ci, enumVars, offer_ids, stocks, prices, batches, sent,
                   not_empty, coroutines, history, divVars>>

\* ---------------------------------------------------------- reconciliation
\* `x in xs`
Contains(xs, x) == \E k \in 1..Len(xs) : xs[k] = x

\* xs.remove(x): xs without the first occurrence of x.
Remove(xs, x) ==
    LET at == Min({k \in 1..Len(xs) : xs[k] = x})
    IN  SubSeq(xs, 1, at - 1) \o SubSeq(xs, at + 1, Len(xs))

Warehouse(c) == IF c = "dbs" THEN "warehouse_dbs" ELSE "warehouse_fbs"

\* The record create_stocks appends for offer id with stock qty.
StockRecord(m, c, id, qty) ==
    IF m = "seller" THEN [offer_id |-> id, stock |-> qty]
    ELSE [sku |-> id, warehouseId |-> Warehouse(c),
          items |-> <<[count |-> qty, type |-> "FIT", updatedAt |-> "date"]>>]

StockId(m, rec) == IF m = "seller" THEN rec.offer_id ELSE rec.sku
StockQty(m, rec) == IF m = "seller" THEN rec.stock ELSE rec.items[1].count

\* A variant without the `elif count == "1"` branch.
StockOfCount_one_is_one(count) ==
    IF count = TextMany THEN [ok |-> TRUE, val |-> ManyStock]
    ELSE ParseInt(count)

\* create_stocks: `if count == ">10" ... elif count == "1" ... else int(...)`
StockOfCount(count) ==
    IF count = TextMany THEN [ok |-> TRUE, val |-> ManyStock]
    ELSE IF count = TextOne THEN [ok |-> TRUE, val |-> 0]
    ELSE ParseInt(count)

\* A variant without `offer_ids.remove(...)`.
create_stocks_row_keep(m, c, st, ids, watch) ==
    IF Contains(ids, watch.code)
    THEN LET q == StockOfCount(watch.count) IN
         IF q.ok
         THEN [raised |-> FALSE,
               stocks |-> Append(st, StockRecord(m, c, watch.code, q.val)),
               offer_ids |-> ids]
         ELSE [raised |-> TRUE, stocks |-> st, offer_ids |-> ids]
    ELSE [raised |-> FALSE, stocks |-> st, offer_ids |-> ids]

\* create_stocks: the body of `for watch in watch_remnants`.
create_stocks_row(m, c, st, ids, watch) ==
    IF Contains(ids, watch.code)
    THEN LET q == StockOfCount(watch.count) IN
         IF q.ok
         THEN [raised |-> FALSE,
               stocks |-> Append(st, StockRecord(m, c, watch.code, q.val)),
               offer_ids |-> Remove(ids, watch.code)]
         ELSE [raised |-> TRUE, stocks |-> st, offer_ids |-> ids]
    ELSE [raised |-> FALSE, stocks |-> st, offer_ids |-> ids]

\* create_stocks: `for offer_id in offer_ids: stocks.append(... 0 ...)`.
create_stocks_rest(m, c, st, ids) ==
    st \o [k \in 1..Len(ids) |-> StockRecord(m, c, ids[k], 0)]

\* The record create_prices appends; the price stays a text in seller.py
\* and is int(...) of the text in market.py.
PriceRecord(m, id, value) ==
    IF m = "seller"
    THEN [auto_action_enabled |-> "UNKNOWN", currency_code |-> "RUB",
          offer_id |-> id, old_price |-> "0", price |-> value]
    ELSE [id |-> id, price |-> [value |-> value, currencyId |-> "RUR"]]

PriceId(m, rec) == IF m = "seller" THEN rec.offer_id ELSE rec.id
PriceValue(m, rec) == IF m = "seller" THEN rec.price ELSE rec.price.value

\* A variant without the `in offer_ids` test.
create_prices_row_all(m, pr, ids, watch) ==
    [raised |-> FALSE,
     prices |-> Append(pr, PriceRecord(m, watch.code, price_conversion(watch.price)))]

\* create_prices: the body of `for watch in watch_remnants`.
create_prices_row(m, pr, ids, watch) ==
    IF Contains(ids, watch.code)
    THEN LET text == price_conversion(watch.price) IN
         IF m = "seller"
         THEN [raised |-> FALSE,
               prices |-> Append(pr, PriceRecord(m, watch.code, text))]
         ELSE IF ParseInt(text).ok
              THEN [raised |-> FALSE,
                    prices |-> Append(pr, PriceRecord(m, watch.code, ParseInt(text).val))]
              ELSE [raised |-> TRUE, prices |-> pr]
    ELSE [raised |-> FALSE, prices |-> pr]

\* ---------------------------------------------------------------- batching
RECURSIVE divide_from(_, _, _)
\* The sub-lists divide yields from position at on (n > 0): lst[at : at + n]
\* for at in range(at, len(lst), n).
divide_from(l, size, at) ==
    IF at >= Len(l) THEN <<>>
    ELSE <<SubSeq(l, at + 1, IF at + size < Len(l) THEN at + size ELSE Len(l))>>
         \o divide_from(l, size, at + size)

\* A variant that slices lst[i : i + n + 1] in steps of n + 1.
divide_one_more(l, size) ==
    [raised |-> size = 0,
     list |-> IF size <= 0 THEN <<>> ELSE divide_from(l, size + 1, 0)]

\* A variant that yields the full sub-lists only.
divide_drop_tail(l, size) ==
    [raised |-> size = 0,
     list |-> IF size <= 0 \/ Len(l) < size THEN <<>>
              ELSE divide_from(SubSeq(l, 1, Len(l) - (Len(l) % size)), size, 0)]

\* list(divide(lst, n)): range(0, len(lst), n) raises ValueError for n = 0
\* and is empty for n < 0.
divide(l, size) ==
    [raised |-> size = 0,
     list |-> IF size <= 0 THEN <<>> ELSE divide_from(l, size, 0)]

IsUploadStocks(e) == e \in {"seller_upload_stocks", "market_upload_stocks"}

\* upload_stocks: list(filter(lambda stock: stock != 0, stocks)), computed
\* when its for loop is left.
NotEmptyAt(phase, st) ==
    IF IsUploadStocks(entry) /\ phase = "done"
    THEN SelectSeq(st, LAMBDA rec : StockQty(mp, rec) # 0)
    ELSE not_empty

CreateStocksRow ==
    /\ pc = "stocks" /\ error = "none"
    /\ i < Len(watch_remnants)
    /\ LET r == create_stocks_row(mp, campaign, stocks, offer_ids,
                                  watch_remnants[i + 1]) IN
        /\ stocks' = r.stocks
        /\ offer_ids' = r.offer_ids
        /\ error' = IF r.raised THEN "ValueError" ELSE "none"
        /\ i' = IF r.raised THEN i ELSE i + 1
    /\ UNCHANGED <<env, pc, ci, watch_remnants, enumVars, prices, batches, sent,
                   not_empty, coroutines, history, divVars>>

CreateStocksReturn ==
    /\ pc = "stocks" /\ error = "none"
    /\ i = Len(watch_remnants)
    /\ LET out == create_stocks_rest(mp, campaign, stocks, offer_ids)
           bs == divide(out, StockBatch(entry)).list
           to == AfterReconcile(entry, "stocks", bs) IN
        /\ stocks' = out
        /\ stockOut' = [stockOut EXCEPT ![campaign] = Returned(out)]
        /\ batches' = bs
        /\ pc' = to
        /\ not_empty' = NotEmptyAt(to, out)
    /\ sent' = 0
    /\ i' = 0
    /\ UNCHANGED <<env, ci, error, watch_remnants, enumVars, offer_ids, prices,
                   coroutines, enumerated, priceOut, handed, divVars>>

\* One pass of `for some_stock in list(divide(stocks, ...)): update_stocks(...)`.
UpdateStocks ==
    /\ pc = "send_stocks" /\ error = "none"
    /\ sent < Len(batches)
    /\ handed' = Append(handed, [kind |-> "stock", campaign |-> campaign,
                                 batch |-> batches[sent + 1]])
    /\ \E ok \in BOOLEAN :
        IF ok
        THEN LET to == IF sent + 1 = Len(batches)
                       THEN NextPhase(entry, "send_stocks") ELSE pc IN
             /\ sent' = sent + 1
             /\ pc' = to
             /\ not_empty' = NotEmptyAt(to, stocks)
             /\ error' = "none"
        ELSE /\ error' = "RequestException"
             /\ UNCHANGED <<sent, pc, not_empty>>
    /\ UNCHANGED <<env, ci, watch_remnants, enumVars, offer_ids, i, stocks, prices,
                   batches, coroutines, enumerated, stockOut, priceOut, divVars>>

CreatePricesRow ==
    /\ pc = "prices" /\ error = "none"
    /\ i < Len(watch_remnants)
    /\ LET r == create_prices_row(mp, prices, offer_ids, watch_remnants[i + 1]) IN
        /\ prices' = r.prices
        /\ error' = IF r.raised THEN "ValueError" ELSE "none"
        /\ i' = IF r.raised THEN i ELSE i + 1
    /\ UNCHANGED <<env, pc, ci, watch_remnants, enumVars, offer_ids, stocks,
                   batches, sent, not_empty, coroutines, history, divVars>>

CreatePricesReturn ==
    /\ pc = "prices" /\ error = "none"
    /\ i = Len(watch_remnants)
    /\ LET bs == divide(prices, PriceBatch(entry)).list IN
        /\ priceOut' = [priceOut EXCEPT ![campaign] = Returned(prices)]
        /\ batches' = bs
        /\ pc' = AfterReconcile(entry, "prices", bs)
    /\ sent' = 0
    /\ i' = 0
    /\ UNCHANGED <<env, ci, error, watch_remnants, enumVars, offer_ids, stocks,
                   prices, not_empty, coroutines, enumerated, stockOut, handed,
                   divVars>>

\* One pass of `for some_price in list(divide(prices, ...)): update_price(...)`.
UpdatePrice ==
    /\ pc = "send_prices" /\ error = "none"
    /\ sent < Len(batches)
    /\ handed' = Append(handed, [kind |-> "price", campaign |-> campaign,
                                 batch |-> batches[sent + 1]])
    /\ \E ok \in BOOLEAN :
        IF ok
        THEN /\ sent' = sent + 1
             /\ pc' = IF sent + 1 = Len(batches)
                      THEN NextPhase(entry, "send_prices") ELSE pc
             /\ error' = "none"
        ELSE /\ error' = "RequestException"
             /\ UNCHANGED <<sent, pc>>
    /\ UNCHANGED <<env, ci, watch_remnants, enumVars, offer_ids, i, stocks, prices,
                   batches, not_empty, coroutines, enumerated, stockOut, priceOut,
                   divVars>>

\* market.main: `upload_prices(watch_remnants, campaign_id, market_token)`.
\* upload_prices is a coroutine function and the call is not awaited: a
\* coroutine object is created and none of its body runs.
CallUploadPrices ==
    /\ pc = "coroutine" /\ error = "none"
    /\ coroutines' = coroutines + 1
    /\ IF ci < Len(CampaignsOf(entry))
       THEN /\ ci' = ci + 1
            /\ pc' = "enum"
            /\ cursor' = 0 /\ total' = 0 /\ product_list' = <<>> /\ requests' = <<>>
       ELSE /\ pc' = "done"
            /\ UNCHANGED <<ci, enumVars>>
    /\ UNCHANGED <<env, error, watch_remnants, offer_ids, i, stocks, prices,
                   batches, sent, not_empty, history, divVars>>

\* ---------------------------------------------------------- specifications
Next ==
    \/ GetProductList
    \/ DownloadStock
    \/ CreateStocksRow
    \/ CreateStocksReturn
    \/ UpdateStocks
    \/ CreatePricesRow
    \/ CreatePricesReturn
    \/ UpdatePrice
    \/ CallUploadPrices

Spec == Init /\ [][Next]_vars

\* divide on its own: every list over two values up to MaxLen and every
\* chunk size from -1 to MaxN.
InitDivide ==
    /\ entry = "seller_main"
    /\ sheet = <<>> /\ catalog = [c \in AllCampaigns |-> 0] /\ pageSize = SmallPage
    /\ pc = "divide"
    /\ ci = 1
    /\ error = "none"
    /\ watch_remnants = <<>>
    /\ cursor = 0 /\ total = 0 /\ product_list = <<>> /\ requests = <<>>
    /\ offer_ids = <<>>
    /\ i = 0
    /\ stocks = <<>> /\ prices = <<>> /\ batches = <<>> /\ sent = 0
    /\ not_empty = <<>>
    /\ coroutines = 0
    /\ enumerated = [c \in AllCampaigns |-> NotYet]
    /\ stockOut = [c \in AllCampaigns |-> NotYet]
    /\ priceOut = [c \in AllCampaigns |-> NotYet]
    /\ handed = <<>>
    /\ lst \in UNION { [1..k -> {"a", "b"}] : k \in 0..MaxLen }
    /\ n \in (0 - 1)..MaxN
    /\ chunks = [raised |-> FALSE, list |-> <<>>]

\* list(divide(lst, n))
ApplyDivide ==
    /\ pc = "divide"
    /\ chunks' = divide(lst, n)
    /\ pc' = "divided"
    /\ UNCHANGED <<env, ci, error, watch_remnants, enumVars, offer_ids, i, stocks,
                   prices, batches, sent, not_empty, coroutines, history, lst, n>>

NextDivide == ApplyDivide

SpecDivide == InitDivide /\ [][NextDivide]_vars

\* ------------------------------------------------------------------ claims
Elems(xs) == {xs[k] : k \in 1..Len(xs)}

StockIds(m, out) == [k \in 1..Len(out) |-> StockId(m, out[k])]
PriceIds(m, out) == [k \in 1..Len(out) |-> PriceId(m, out[k])]
Codes(F) == {F[k].code : k \in 1..Len(F)}

\* C1: the list create_stocks returns holds exactly one record per offer id
\* of the list get_offer_ids returned: as many records as offer ids, no
\* offer id twice, none missing.
C1_StocksComplete ==
    \A c \in AllCampaigns :
        stockOut[c].done =>
            LET S == enumerated[c].list
                ids == StockIds(mp, stockOut[c].list)
            IN  /\ Len(ids) = Len(S)
                /\ Elems(ids) = Elems(S)
                /\ Cardinality(Elems(ids)) = Len(ids)

\* Two rows of the spreadsheet carry the same code of a catalog of at
\* least two offers, and create_stocks has returned.
C1_Witness ==
    \E c \in AllCampaigns :
        /\ stockOut[c].done
        /\ Len(enumerated[c].list) >= 2
        /\ Len(watch_remnants) >= 2
        /\ watch_remnants[1].code = watch_remnants[2].code
        /\ watch_remnants[1].code \in Elems(enumerated[c].list)

\* The quantity the rule of the specification gives a text that
\* create_stocks accepts.
ClaimedQuantity(text) ==
    IF text = <<">", "1", "0">> THEN 100
    ELSE IF text = <<"1">> THEN 0
    ELSE ParseInt(text).val

FirstRow(F, id) == F[Min({k \in 1..Len(F) : F[k].code = id})]

\* C2: in the list create_stocks returns, an offer of the spreadsheet and
\* the catalog carries the quantity of its first row (">10" is 100, "1" is
\* 0, any other text its integer value), an offer of the catalog alone
\* carries 0, and an offer of the spreadsheet alone has no record.
C2_StockQuantities ==
    \A c \in AllCampaigns :
        stockOut[c].done =>
            LET S == Elems(enumerated[c].list)
                F == watch_remnants
                FC == Codes(watch_remnants)
                out == stockOut[c].list
                outIds == Elems(StockIds(mp, stockOut[c].list))
            IN  /\ \A k \in 1..Len(out) :
                      LET id == StockId(mp, out[k]) IN
                      /\ id \in S
                      /\ StockQty(mp, out[k]) =
                            IF id \in FC
                            THEN ClaimedQuantity(FirstRow(F, id).count)
                            ELSE 0
                /\ S \subseteq outIds
                /\ (FC \ S) \cap outIds = {}

\* create_stocks has returned a record of 100 for a ">10" row, a record of
\* 0 for a "1" row and a record of 0 for an offer no row names.
C2_Witness ==
    \E c \in AllCampaigns :
        /\ stockOut[c].done
        /\ \E k \in 1..Len(watch_remnants) :
              /\ watch_remnants[k].count \in {TextMany, TextOne}
              /\ watch_remnants[k].code \in Elems(enumerated[c].list)
        /\ \E k \in 1..Len(stockOut[c].list) :
              StockQty(mp, stockOut[c].list[k]) = 100
        /\ Elems(enumerated[c].list) \ Codes(watch_remnants) # {}

\* The rows of F whose code is in S, in the order of F.
RowsIn(F, S) == {k \in 1..Len(F) : F[k].code \in S}
NthRowIn(F, S, j) ==
    CHOOSE k \in RowsIn(F, S) : Cardinality({x \in RowsIn(F, S) : x <= k}) = j

\* C3: in seller.main, which reconciles stocks and then prices, the price
\* list holds one record for every row whose code is in the enumerated
\* offer ids, in the order of the rows.
C3_PricesAgainstEnumeratedIds ==
    (entry = "seller_main" /\ priceOut["client"].done) =>
        LET S == Elems(enumerated["client"].list)
            F == watch_remnants
            ids == PriceIds(mp, priceOut["client"].list)
        IN  /\ Len(ids) = Cardinality(RowsIn(F, S))
            /\ \A j \in 1..Len(ids) : ids[j] = F[NthRowIn(F, S, j)].code

\* C4: every record of the list create_prices returns names an offer that
\* is both in the spreadsheet and in the enumerated offer ids.
C4_PricesOnlyForCommonOffers ==
    \A c \in AllCampaigns :
        priceOut[c].done =>
            Elems(PriceIds(mp, priceOut[c].list))
                \subseteq (Elems(enumerated[c].list) \cap Codes(watch_remnants))

\* create_prices has returned a record, and the spreadsheet names an offer
\* the catalog does not hold.
C4_Witness ==
    \E c \in AllCampaigns :
        /\ priceOut[c].done
        /\ priceOut[c].list # <<>>
        /\ Codes(watch_remnants) \ Elems(enumerated[c].list) # {}

RECURSIVE Flatten(_)
Flatten(ls) == IF ls = <<>> THEN <<>> ELSE Head(ls) \o Flatten(Tail(ls))

\* C5: for n > 0, divide(lst, n) raises nothing, its sub-lists concatenated
\* in order are lst, every sub-list but the last has n elements and the
\* last one between 1 and n, there are ceil(len(lst) / n) of them, and
\* none for the empty list.
C5_DivideChunks ==
    (pc = "divided" /\ n > 0) =>
        /\ ~chunks.raised
        /\ Flatten(chunks.list) = lst
        /\ \A k \in 1..Len(chunks.list) :
              /\ k < Len(chunks.list) => Len(chunks.list[k]) = n
              /\ Len(chunks.list[k]) \in 1..n
        /\ Len(chunks.list) = (Len(lst) + n - 1) \div n
        /\ (lst = <<>> => chunks.list = <<>>)

\* divide has cut a list into full sub-lists and a shorter last one.
C5_Witness ==
    /\ pc = "divided"
    /\ n = 2
    /\ Len(lst) = 3
    /\ lst[1] # lst[2]
    /\ Len(chunks.list) = 2

\* The limit the claim gives the batches of an entry point.
ClaimedLimit(e, kind) ==
    CASE e \in {"seller_main", "seller_upload_stocks"} /\ kind = "stock" -> 100
      [] e = "seller_main" /\ kind = "price" -> 900
      [] e = "seller_upload_prices" /\ kind = "price" -> 1000
      [] e \in {"market_main", "market_upload_stocks"} /\ kind = "stock" -> 2000
      [] e \in {"market_main", "market_upload_prices"} /\ kind = "price" -> 500
      [] OTHER -> 0

\* The batches handed over for campaign c and one kind, in order.
HandedFor(c, kind) ==
    SelectSeq(handed, LAMBDA h : h.campaign = c /\ h.kind = kind)

HandedRecords(c, kind) ==
    Flatten([k \in 1..Len(HandedFor(c, kind)) |-> HandedFor(c, kind)[k].batch])

IsPrefix(xs, ys) == Len(xs) <= Len(ys) /\ xs = SubSeq(ys, 1, Len(xs))

\* The for loop over the batches of campaign c and one kind has been left.
LoopLeft(c, kind) ==
    ~(campaign = c /\ pc = (IF kind = "stock" THEN "send_stocks" ELSE "send_prices"))

OutOf(c, kind) == IF kind = "stock" THEN stockOut[c] ELSE priceOut[c]

\* C6: no batch handed to update_stocks or update_price is longer than the
\* limit of its marketplace and kind, and the batches handed over for one
\* reconciled list, concatenated in order, are the beginning of that list
\* and, once the for loop is left, the whole list.
C6_BatchesWithinLimit ==
    /\ \A h \in 1..Len(handed) :
          Len(handed[h].batch) <= ClaimedLimit(entry, handed[h].kind)
    /\ \A c \in AllCampaigns, kind \in {"stock", "price"} :
          IF OutOf(c, kind).done
          THEN /\ IsPrefix(HandedRecords(c, kind), OutOf(c, kind).list)
               /\ LoopLeft(c, kind) => HandedRecords(c, kind) = OutOf(c, kind).list
          ELSE HandedFor(c, kind) = <<>>

\* A run has ended after handing over a full batch and a further one.
C6_Witness ==
    /\ pc = "done"
    /\ Len(handed) >= 2
    /\ Len(handed[1].batch) = ClaimedLimit(entry, handed[1].kind)
    /\ handed[2].kind = handed[1].kind
    /\ handed[2].campaign = handed[1].campaign

\* A price update is due for campaign c: a row names an offer of the list
\* get_offer_ids returned for c.
PriceDue(c) == Codes(watch_remnants) \cap Elems(enumerated[c].list) # {}

\* C7: when main has ended and no call has failed, every batch of the
\* stock list and of the price list of each of its campaigns has been
\* handed over (a price list that holds a record exists and is handed over).
C7_AllBatchesSubmitted ==
    (pc = "done" /\ error = "none" /\ entry \in {"seller_main", "market_main"}) =>
        \A c \in Elems(CampaignsOf(entry)) :
            /\ stockOut[c].done
            /\ HandedRecords(c, "stock") = stockOut[c].list
            /\ IF priceOut[c].done
               THEN HandedRecords(c, "price") = priceOut[c].list
               ELSE ~PriceDue(c)

\* get_offer_ids has returned for the campaign being served.
EnumReturned == enumerated[campaign].done
\* get_offer_ids is in its loop, between two page requests.
EnumLooping == pc = "enum" /\ error = "none" /\ requests # <<>>

\* Every page of the catalog was asked for once, from the empty cursor on,
\* and the offer ids of all their entries are returned.
EnumReturnsAll ==
    EnumReturned =>
        /\ requests[1].cursor = 0
        /\ Len(requests) =
              (IF catalog[campaign] = 0 THEN 1
               ELSE (catalog[campaign] + pageSize - 1) \div pageSize)
        /\ enumerated[campaign].list =
              [k \in 1..catalog[campaign] |-> OfferName(k)]

\* C8 as stated: get_offer_ids stays in its loop while the cursor of the
\* last page is not empty, returns when it is empty, and returns the offer
\* ids of all entries of all pages.
C8_StopsOnEmptyCursor ==
    /\ EnumLooping => cursor # 0
    /\ EnumReturned => cursor = 0
    /\ EnumReturnsAll

\* C8 amended: market.py leaves the loop on the first empty nextPageToken;
\* seller.py leaves it when the reported total equals the number of
\* entries accumulated, whatever the cursor; both start from the empty
\* cursor and return the offer ids of all entries of all pages.
C8_StopRule ==
    /\ mp = "market" =>
          /\ EnumLooping => cursor # 0
          /\ EnumReturned => cursor = 0
    /\ mp = "seller" =>
          /\ EnumLooping => total # Len(product_list)
          /\ EnumReturned => total = Len(product_list)
    /\ EnumReturnsAll

\* get_offer_ids has returned the offer ids of a catalog of several pages.
C8_Witness ==
    /\ EnumReturned
    /\ Len(requests) >= 2
    /\ Len(enumerated[campaign].list) >= 2

FailedPage == \E k \in 1..Len(requests) : requests[k].reply # "ok"

\* C9: once a page request has failed, get_offer_ids has raised and has
\* returned no list for the campaign, the run has ended where it was, and
\* nothing is reconciled or handed over for the campaign.
C9_EnumerationFailureAborts ==
    FailedPage =>
        /\ error # "none"
        /\ pc = "enum"
        /\ ~enumerated[campaign].done
        /\ ci = 1 => offer_ids = <<>>
        /\ ~stockOut[campaign].done
        /\ ~priceOut[campaign].done
        /\ \A h \in 1..Len(handed) : handed[h].campaign # campaign

\* A page request has failed after an earlier page was accumulated.
C9_Witness ==
    /\ FailedPage
    /\ product_list # <<>>
    /\ requests[Len(requests)].reply = "no_result"

\* C10: every record of the list create_stocks returns has a quantity that
\* is not negative.
C10_StockNotNegative ==
    \A c \in AllCampaigns :
        stockOut[c].done =>
            \A k \in 1..Len(stockOut[c].list) :
                StockQty(mp, stockOut[c].list[k]) >= 0

\* C11: for every n <= 0, zero or negative, and every list, empty or not,
\* list(divide(lst, n)) raises instead of producing sub-lists.
C11_DivideRejectsNonPositive ==
    (pc = "divided" /\ n <= 0) => chunks.raised

\* The row create_prices visited last is a row of the offer ids it was
\* given whose price text keeps no digit.
LastPriceRowHasNoDigits ==
    /\ pc = "prices"
    /\ i >= 1
    /\ Contains(offer_ids, watch_remnants[i].code)
    /\ price_conversion(watch_remnants[i].price) = <<>>

\* C12: create_prices does not get past a row of its offer ids whose price
\* text keeps no digit before the first ".": it raises there, and no price
\* record carries an empty price.
C12_NoDigitsPriceRaises ==
    /\ ~LastPriceRowHasNoDigits
    /\ mp = "seller" =>
          \A k \in {Len(prices)} \ {0} : PriceValue(mp, prices[k]) # <<>>

\* A reconciliation of the campaign being served is under way or over.
Reconciling ==
    \/ pc \in {"stocks", "send_stocks", "prices", "send_prices", "coroutine"}
    \/ stockOut[campaign].done
    \/ priceOut[campaign].done

\* C13: nothing is reconciled for a campaign before get_offer_ids has
\* returned the offer ids of its whole catalog, and no batch is handed over
\* before the reconciliation of its list has returned that list.
C13_StepsInOrder ==
    /\ Reconciling =>
          /\ enumerated[campaign].done
          /\ enumerated[campaign].list =
                [k \in 1..catalog[campaign] |-> OfferName(k)]
    /\ pc = "send_stocks" => stockOut[campaign].done
    /\ pc = "send_prices" => priceOut[campaign].done
    /\ \A h \in 1..Len(handed) :
          /\ enumerated[handed[h].campaign].done
          /\ OutOf(handed[h].campaign, handed[h].kind).done
          /\ \A k \in {1, Len(handed[h].batch)} :
                \E j \in 1..Len(OutOf(handed[h].campaign, handed[h].kind).list) :
                    OutOf(handed[h].campaign, handed[h].kind).list[j]
                        = handed[h].batch[k]

\* market.main has ended after handing over the stocks of both campaigns.
C13_Witness ==
    /\ pc = "done"
    /\ entry = "market_main"
    /\ HandedFor("fbs", "stock") # <<>>
    /\ HandedFor("dbs", "stock") # <<>>

\* The rows of F that carry code id, in the order of F.
RowsOf(F, id) == SelectSeq(F, LAMBDA w : w.code = id)

\* The price create_prices writes for a price text it accepts.
ClaimedPrice(m, text) ==
    IF m = "seller" THEN price_conversion(text)
    ELSE ParseInt(price_conversion(text)).val

\* The codes of more than one row of F.
Repeated(F) ==
    IF Cardinality(Codes(F)) = Len(F) THEN {}
    ELSE {id \in Codes(F) : Len(RowsOf(F, id)) > 1}

\* C14: for a code of the campaign's catalog that k > 1 rows carry, the
\* list create_stocks returns holds one record, with the quantity of the
\* first of the rows, and the list create_prices returns in the same run
\* holds k records, with the prices of the rows in their order.
C14_FirstStockEveryPrice ==
    \A c \in AllCampaigns :
        /\ stockOut[c].done =>
              \A id \in Repeated(watch_remnants) \cap Elems(enumerated[c].list) :
                  LET recs == SelectSeq(stockOut[c].list,
                                        LAMBDA r : StockId(mp, r) = id)
                  IN  /\ Len(recs) = 1
                      /\ StockQty(mp, recs[1]) =
                            ClaimedQuantity(RowsOf(watch_remnants, id)[1].count)
        /\ priceOut[c].done =>
              \A id \in Repeated(watch_remnants) \cap Elems(enumerated[c].list) :
                  LET recs == SelectSeq(priceOut[c].list,
                                        LAMBDA r : PriceId(mp, r) = id)
                      rows == RowsOf(watch_remnants, id)
                  IN  /\ Len(recs) = Len(rows)
                      /\ \A k \in 1..Len(rows) :
                            PriceValue(mp, recs[k]) = ClaimedPrice(mp, rows[k].price)
====
